---- MODULE Spec2Model ----
(***************************************************************************)
(* Model of package transx (transx.go): one invocation of MigrateData,     *)
(* Backup, Transfer or Restore on a DataMigrationModel, together with the  *)
(* child processes it spawns and the relay staging directory it creates.   *)
(*                                                                         *)
(* Go strings are sequences of one-character strings, so that TrimSpace,   *)
(* Sprintf, Join and Itoa are computed and not assumed.  An error value is *)
(* the chain of its messages, outermost wrapper first; <<>> is nil.        *)
(***************************************************************************)
EXTENDS Integers, Sequences, FiniteSets, TLC

VARIABLES task, op, pc, procs, tempDir, fs, result

vars == <<task, op, pc, procs, tempDir, fs, result>>

(***************************************************************************)
(* Bounds of the explored inputs.                                          *)
(***************************************************************************)
\* number of distinct random suffixes os.MkdirTemp may pick
MaxRand == 2

(***************************************************************************)
(* strings, strconv, fmt                                                   *)
(***************************************************************************)
WhiteSpace == {" ", "\t", "\n", "\r"}

RECURSIVE TrimLeft(_)
TrimLeft(s) ==
    IF s = <<>> THEN <<>>
    ELSE IF Head(s) \in WhiteSpace THEN TrimLeft(Tail(s)) ELSE s

RECURSIVE TrimRight(_)
TrimRight(s) ==
    IF s = <<>> THEN <<>>
    ELSE IF s[Len(s)] \in WhiteSpace THEN TrimRight(SubSeq(s, 1, Len(s) - 1)) ELSE s

TrimSpace(s) == TrimRight(TrimLeft(s))

DigitChar == <<"0", "1", "2", "3", "4", "5", "6", "7", "8", "9">>

RECURSIVE Digits(_)
Digits(n) ==
    IF n < 10 THEN <<DigitChar[n + 1]>>
    ELSE Digits(n \div 10) \o <<DigitChar[(n % 10) + 1]>>

Itoa(n) == IF n < 0 THEN <<"-">> \o Digits(0 - n) ELSE Digits(n)

RECURSIVE Join(_, _)
Join(parts, sep) ==
    IF parts = <<>> THEN <<>>
    ELSE IF Len(parts) = 1 THEN parts[1]
    ELSE parts[1] \o sep \o Join(Tail(parts), sep)

\* error values
NoErr == <<>>
Wrap(msg, err) == <<msg>> \o err
ExitErr == <<"exit status 1">>

(***************************************************************************)
(* EndpointDetails and DataMigrationModel methods                          *)
(***************************************************************************)
isRemoteNoTrim(e) == e.HostIP # <<>>

isRemoteByUsername(e) == TrimSpace(e.HostIP) # <<>> \/ TrimSpace(e.Username) # <<>>

isRemote(e) == TrimSpace(e.HostIP) # <<>>

getRsyncPathNoTrim(e) ==
    IF isRemote(e)
    THEN IF e.Username # <<>>
         THEN e.Username \o <<"@">> \o e.HostIP \o <<":">> \o e.DataPath
         ELSE e.HostIP \o <<":">> \o e.DataPath
    ELSE e.DataPath

getRsyncPath(e) ==
    IF isRemote(e)
    THEN IF TrimSpace(e.Username) # <<>>
         THEN e.Username \o <<"@">> \o e.HostIP \o <<":">> \o e.DataPath
         ELSE e.HostIP \o <<":">> \o e.DataPath
    ELSE e.DataPath

IsRelayModeEither(t) == isRemote(t.Source) \/ isRemote(t.Destination)

IsRelayMode(t) == isRemote(t.Source) /\ isRemote(t.Destination)

PortOutOfRangeOffByOne(p) == p # 0 /\ (p < 1 \/ p > 65536)

PortOutOfRange(p) == p # 0 /\ (p < 1 \/ p > 65535)

ValidatePortsFirst(t) ==
    IF isRemote(t.Source) /\ PortOutOfRange(t.Source.SSHPort)
    THEN <<"source SSH port is out of valid range (1-65535)">>
    ELSE IF isRemote(t.Destination) /\ PortOutOfRange(t.Destination.SSHPort)
    THEN <<"destination SSH port is out of valid range (1-65535)">>
    ELSE IF TrimSpace(getRsyncPath(t.Source)) = <<>> \/ TrimSpace(t.Source.DataPath) = <<>>
    THEN <<"source path must be provided for rsync task">>
    ELSE IF TrimSpace(getRsyncPath(t.Destination)) = <<>> \/ TrimSpace(t.Destination.DataPath) = <<>>
    THEN <<"destination path must be provided for rsync task">>
    ELSE NoErr

ValidateAnyEndpointPort(t) ==
    IF TrimSpace(getRsyncPath(t.Source)) = <<>> \/ TrimSpace(t.Source.DataPath) = <<>>
    THEN <<"source path must be provided for rsync task">>
    ELSE IF TrimSpace(getRsyncPath(t.Destination)) = <<>> \/ TrimSpace(t.Destination.DataPath) = <<>>
    THEN <<"destination path must be provided for rsync task">>
    ELSE IF PortOutOfRange(t.Source.SSHPort)
    THEN <<"source SSH port is out of valid range (1-65535)">>
    ELSE IF PortOutOfRange(t.Destination.SSHPort)
    THEN <<"destination SSH port is out of valid range (1-65535)">>
    ELSE NoErr

Validate(t) ==
    IF TrimSpace(getRsyncPath(t.Source)) = <<>> \/ TrimSpace(t.Source.DataPath) = <<>>
    THEN <<"source path must be provided for rsync task">>
    ELSE IF TrimSpace(getRsyncPath(t.Destination)) = <<>> \/ TrimSpace(t.Destination.DataPath) = <<>>
    THEN <<"destination path must be provided for rsync task">>
    ELSE IF isRemote(t.Source) /\ PortOutOfRange(t.Source.SSHPort)
    THEN <<"source SSH port is out of valid range (1-65535)">>
    ELSE IF isRemote(t.Source) /\ TrimSpace(t.Source.HostIP) = <<>>
    THEN <<"source HostIP must be provided for remote rsync task">>
    ELSE IF isRemote(t.Destination) /\ PortOutOfRange(t.Destination.SSHPort)
    THEN <<"destination SSH port is out of valid range (1-65535)">>
    ELSE IF isRemote(t.Destination) /\ TrimSpace(t.Destination.HostIP) = <<>>
    THEN <<"destination HostIP must be provided for remote rsync task">>
    ELSE NoErr

(***************************************************************************)
(* Transfer: the rsync argument list                                       *)
(***************************************************************************)
rsyncCmdPath(t) ==
    IF t.RsyncOptions.RsyncPath = <<>> THEN <<"r", "s", "y", "n", "c">>
    ELSE t.RsyncOptions.RsyncPath

\* one "<prefix><pattern>" argument per pattern that is not blank, in list order
RECURSIVE PatternArgs(_, _)
PatternArgs(prefix, patterns) ==
    IF patterns = <<>> THEN <<>>
    ELSE (IF TrimSpace(Head(patterns)) # <<>> THEN <<prefix \o Head(patterns)>> ELSE <<>>)
         \o PatternArgs(prefix, Tail(patterns))

basicArgsIncludeFirst(o) ==
       (IF o.Archive THEN << <<"-", "a">> >> ELSE <<>>)
    \o (IF o.Compress THEN << <<"-", "z">> >> ELSE <<>>)
    \o (IF o.Verbose THEN << <<"-", "v">> >> ELSE <<>>)
    \o (IF o.Delete THEN << <<"-", "-", "d", "e", "l", "e", "t", "e">> >> ELSE <<>>)
    \o (IF o.Progress THEN << <<"-", "-", "p", "r", "o", "g", "r", "e", "s", "s">> >> ELSE <<>>)
    \o (IF o.DryRun THEN << <<"-", "n">> >> ELSE <<>>)
    \o PatternArgs(<<"-", "-", "i", "n", "c", "l", "u", "d", "e", "=">>, o.Include)
    \o PatternArgs(<<"-", "-", "e", "x", "c", "l", "u", "d", "e", "=">>, o.Exclude)

basicArgs(o) ==
       (IF o.Archive THEN << <<"-", "a">> >> ELSE <<>>)
    \o (IF o.Compress THEN << <<"-", "z">> >> ELSE <<>>)
    \o (IF o.Verbose THEN << <<"-", "v">> >> ELSE <<>>)
    \o (IF o.Delete THEN << <<"-", "-", "d", "e", "l", "e", "t", "e">> >> ELSE <<>>)
    \o (IF o.Progress THEN << <<"-", "-", "p", "r", "o", "g", "r", "e", "s", "s">> >> ELSE <<>>)
    \o (IF o.DryRun THEN << <<"-", "n">> >> ELSE <<>>)
    \o PatternArgs(<<"-", "-", "e", "x", "c", "l", "u", "d", "e", "=">>, o.Exclude)
    \o PatternArgs(<<"-", "-", "i", "n", "c", "l", "u", "d", "e", "=">>, o.Include)

\* the zero value of EndpointDetails
ZeroEndpoint ==
    [Username |-> <<>>, HostIP |-> <<>>, SSHPort |-> 0, DataPath |-> <<>>,
     SSHPrivateKeyPath |-> <<>>, BackupCmd |-> <<>>, RestoreCmd |-> <<>>]

operationInvolvesRemoteRsync(t) == isRemote(t.Source) \/ isRemote(t.Destination)

activeRemoteEndpointForRsyncSourceOnly(t) ==
    IF isRemote(t.Source) \/ isRemote(t.Destination) THEN t.Source ELSE ZeroEndpoint

activeRemoteEndpointForRsyncDestinationFirst(t) ==
    IF isRemote(t.Destination) THEN t.Destination
    ELSE IF isRemote(t.Source) THEN t.Source
    ELSE ZeroEndpoint

activeRemoteEndpointForRsync(t) ==
    IF isRemote(t.Source) THEN t.Source
    ELSE IF isRemote(t.Destination) THEN t.Destination
    ELSE ZeroEndpoint

S_ssh == <<"s", "s", "h">>
S_StrictHostKeyChecking ==
    <<"S", "t", "r", "i", "c", "t", "H", "o", "s", "t", "K", "e", "y", "C", "h", "e", "c", "k", "i", "n", "g",
      "=", "a", "c", "c", "e", "p", "t", "-", "n", "e", "w">>
S_UserKnownHostsFile ==
    <<"U", "s", "e", "r", "K", "n", "o", "w", "n", "H", "o", "s", "t", "s", "F", "i", "l", "e",
      "=", "/", "d", "e", "v", "/", "n", "u", "l", "l">>

\* the parts "ssh [-i key] [-p port] [-o ... -o ...]" shared by Transfer and executeCommand
sshCmdParts(e, o) ==
       <<S_ssh>>
    \o (IF TrimSpace(e.SSHPrivateKeyPath) # <<>> THEN << <<"-", "i">>, e.SSHPrivateKeyPath >> ELSE <<>>)
    \o (IF e.SSHPort # 0 THEN << <<"-", "p">>, Itoa(e.SSHPort) >> ELSE <<>>)
    \o (IF o.InsecureSkipHostKeyVerification
        THEN << <<"-", "o">>, S_StrictHostKeyChecking, <<"-", "o">>, S_UserKnownHostsFile >>
        ELSE <<>>)

sshOptString(t) ==
    IF operationInvolvesRemoteRsync(t) /\ activeRemoteEndpointForRsync(t).SSHPrivateKeyPath # <<>>
    THEN Join(sshCmdParts(activeRemoteEndpointForRsync(t), t.RsyncOptions), <<" ">>)
    ELSE <<>>

\* args as it stands before the positional addresses are appended
rsyncArgs(t) ==
    basicArgs(t.RsyncOptions)
    \o (IF sshOptString(t) # <<>> THEN << <<"-", "e">>, sshOptString(t) >> ELSE <<>>)

directArgsSwapped(t) == rsyncArgs(t) \o <<getRsyncPath(t.Destination), getRsyncPath(t.Source)>>

directArgs(t) == rsyncArgs(t) \o <<getRsyncPath(t.Source), getRsyncPath(t.Destination)>>

downloadArgs(t, dir) == rsyncArgs(t) \o <<getRsyncPath(t.Source), dir \o <<"/">> >>

uploadArgsFromSource(t, dir) == rsyncArgs(t) \o <<getRsyncPath(t.Source), getRsyncPath(t.Destination)>>

uploadArgs(t, dir) == rsyncArgs(t) \o <<dir \o <<"/">>, getRsyncPath(t.Destination)>>

\* os.MkdirTemp("", "transx-relay-*"): the pattern's * replaced by a random number
MkdirTempName(n) ==
    <<"/", "t", "m", "p", "/", "t", "r", "a", "n", "s", "x", "-", "r", "e", "l", "a", "y", "-">> \o Itoa(n)

\* os.RemoveAll(path) on the set of existing directories
RemoveAll(dirs, path) == dirs \ {path}

(***************************************************************************)
(* executeCommand                                                          *)
(***************************************************************************)
RECURSIVE Contains(_, _)
Contains(s, sub) ==
    IF Len(sub) > Len(s) THEN FALSE
    ELSE IF SubSeq(s, 1, Len(sub)) = sub THEN TRUE
    ELSE Contains(Tail(s), sub)

userHost(e) ==
    IF TrimSpace(e.Username) # <<>> THEN e.Username \o <<"@">> \o e.HostIP ELSE e.HostIP

executeCommandPreErrNoBlankCheck(cmd, e) ==
    IF isRemote(e) /\ TrimSpace(e.HostIP) = <<>>
    THEN <<"HostIP must be provided for remote command execution on endpoint">>
    ELSE NoErr

\* the error executeCommand returns before spawning anything, or NoErr
executeCommandPreErr(cmd, e) ==
    IF TrimSpace(cmd) = <<>> THEN <<"command to execute cannot be empty">>
    ELSE IF isRemote(e) /\ TrimSpace(e.HostIP) = <<>>
    THEN <<"HostIP must be provided for remote command execution on endpoint">>
    ELSE NoErr

executeCommandArgvTtyFirst(cmd, e, o) ==
    IF isRemote(e)
    THEN sshCmdParts(e, o)
         \o (IF Contains(cmd, <<"s", "u", "d", "o">>) THEN << <<"-", "t">> >> ELSE <<>>)
         \o << <<"-", "o">>, <<"C", "o", "n", "n", "e", "c", "t", "T", "i", "m", "e", "o", "u", "t", "=", "3", "0">> >>
         \o <<userHost(e), cmd>>
    ELSE << <<"s", "h">>, <<"-", "c">>, cmd >>

\* the argument vector (program first) of the one process executeCommand spawns
executeCommandArgv(cmd, e, o) ==
    IF isRemote(e)
    THEN sshCmdParts(e, o)
         \o << <<"-", "o">>, <<"C", "o", "n", "n", "e", "c", "t", "T", "i", "m", "e", "o", "u", "t", "=", "3", "0">> >>
         \o (IF Contains(cmd, <<"s", "u", "d", "o">>) THEN << <<"-", "t">> >> ELSE <<>>)
         \o <<userHost(e), cmd>>
    ELSE << <<"s", "h">>, <<"-", "c">>, cmd >>

(***************************************************************************)
(* The explored tasks                                                      *)
(***************************************************************************)
SrcEndpoints ==
    [Username : {<<>>, <<"u", "1">>},
     HostIP : {<<>>, <<" ">>, <<"h", "1">>},
     SSHPort : {0, 22, 70000},
     DataPath : {<<>>, <<"/", "s">>},
     SSHPrivateKeyPath : {<<>>, <<"k", "1">>},
     BackupCmd : {<<>>, <<" ">>, <<"b", "k">>},
     RestoreCmd : {<<>>}]

DstEndpoints ==
    [Username : {<<"u", "2">>},
     HostIP : {<<>>, <<"h", "2">>},
     SSHPort : {0, 2222, 65536},
     DataPath : {<<" ">>, <<"/", "d">>},
     SSHPrivateKeyPath : {<<>>, <<"k", "2">>},
     BackupCmd : {<<>>},
     RestoreCmd : {<<>>, <<"r", "s">>}]

Options ==
    [Compress : {FALSE}, Archive : {TRUE}, Verbose : {FALSE}, Delete : {FALSE},
     Progress : {FALSE}, DryRun : {FALSE}, RsyncPath : {<<>>},
     Exclude : {<<>>}, Include : {<<>>},
     InsecureSkipHostKeyVerification : BOOLEAN]

Tasks == [Source : SrcEndpoints, Destination : DstEndpoints, RsyncOptions : Options]

Ops == {"MigrateData", "Backup", "Transfer", "Restore"}

NoDir == <<>>

(***************************************************************************)
(* Child processes: exec.Command(...).CombinedOutput() spawns the process  *)
(* and blocks until it has exited                                          *)
(***************************************************************************)
Spawn(ps, phase, argv) == Append(ps, [phase |-> phase, argv |-> argv, state |-> "running"])

Exited(ps, outcome) == [ps EXCEPT ![Len(ps)].state = outcome]

Outcomes == {"ok", "fail"}

(***************************************************************************)
(* Returns: where control goes when a phase returns err to its caller      *)
(***************************************************************************)
BackupReturnChains(err) ==
    IF err # NoErr
    THEN pc' = "done" /\ result' = (IF op = "Backup" THEN err ELSE Wrap("backup operation failed", err))
    ELSE pc' = "Transfer" /\ result' = result

BackupReturn(err) ==
    IF op = "Backup" THEN pc' = "done" /\ result' = err
    ELSE IF err # NoErr
         THEN pc' = "done" /\ result' = Wrap("backup operation failed", err)
         ELSE pc' = "Transfer" /\ result' = result

TransferReturnIgnoringErr(err) ==
    IF op = "Transfer" THEN pc' = "done" /\ result' = err
    ELSE IF TrimSpace(task.Destination.RestoreCmd) # <<>>
         THEN pc' = "Restore" /\ result' = result
         ELSE pc' = "done" /\ result' = NoErr

TransferReturn(err) ==
    IF op = "Transfer" THEN pc' = "done" /\ result' = err
    ELSE IF err # NoErr
         THEN pc' = "done" /\ result' = Wrap("data transfer failed", err)
         ELSE IF TrimSpace(task.Destination.RestoreCmd) # <<>>
              THEN pc' = "Restore" /\ result' = result
              ELSE pc' = "done" /\ result' = NoErr

RestoreReturn(err) ==
    IF op = "Restore" THEN pc' = "done" /\ result' = err
    ELSE IF err # NoErr
         THEN pc' = "done" /\ result' = Wrap("restore operation failed", err)
         ELSE pc' = "done" /\ result' = NoErr

(***************************************************************************)
(* Actions                                                                 *)
(***************************************************************************)
Init ==
    /\ task \in Tasks
    /\ op \in Ops
    /\ pc = op
    /\ procs = <<>>
    /\ tempDir = NoDir
    /\ fs = {}
    /\ result = NoErr

\* MigrateData, step 1: Backup is called only if BackupCmd is not blank
MigrateDataAlwaysBackup ==
    /\ pc = "MigrateData"
    /\ pc' = "Backup"
    /\ UNCHANGED <<task, op, procs, tempDir, fs, result>>

MigrateDataTrimsCmd ==
    /\ pc = "MigrateData"
    /\ pc' = IF TrimSpace(task.Source.BackupCmd) # <<>> THEN "Backup" ELSE "Transfer"
    /\ task' = [task EXCEPT !.Source.BackupCmd = TrimSpace(@)]
    /\ UNCHANGED <<op, procs, tempDir, fs, result>>

MigrateData ==
    /\ pc = "MigrateData"
    /\ pc' = IF TrimSpace(task.Source.BackupCmd) # <<>> THEN "Backup" ELSE "Transfer"
    /\ UNCHANGED <<task, op, procs, tempDir, fs, result>>

\* Backup up to the point where executeCommand has spawned the process
BackupNoWait ==
    /\ pc = "Backup"
    /\ TrimSpace(task.Source.BackupCmd) # <<>>
    /\ procs' = Spawn(procs, "Backup",
                      executeCommandArgv(task.Source.BackupCmd, task.Source, task.RsyncOptions))
    /\ BackupReturn(NoErr)
    /\ UNCHANGED <<task, op, tempDir, fs>>

BackupSkipBlank ==
    /\ pc = "Backup"
    /\ IF TrimSpace(task.Source.BackupCmd) = <<>>
       THEN /\ BackupReturn(NoErr)
            /\ UNCHANGED procs
       ELSE /\ procs' = Spawn(procs, "Backup",
                              executeCommandArgv(task.Source.BackupCmd, task.Source, task.RsyncOptions))
            /\ pc' = "BackupWait"
            /\ UNCHANGED result
    /\ UNCHANGED <<task, op, tempDir, fs>>

Backup ==
    /\ pc = "Backup"
    /\ IF TrimSpace(task.Source.BackupCmd) = <<>>
       THEN /\ BackupReturn(<<"backup command is not defined for source">>)
            /\ UNCHANGED procs
       ELSE IF executeCommandPreErr(task.Source.BackupCmd, task.Source) # NoErr
       THEN /\ BackupReturn(Wrap("backup command execution failed",
                                 executeCommandPreErr(task.Source.BackupCmd, task.Source)))
            /\ UNCHANGED procs
       ELSE /\ procs' = Spawn(procs, "Backup",
                              executeCommandArgv(task.Source.BackupCmd, task.Source, task.RsyncOptions))
            /\ pc' = "BackupWait"
            /\ UNCHANGED result
    /\ UNCHANGED <<task, op, tempDir, fs>>

BackupExitRetry ==
    /\ pc = "BackupWait"
    /\ \E outcome \in Outcomes :
          IF outcome = "ok"
          THEN /\ procs' = Exited(procs, "ok")
               /\ BackupReturn(NoErr)
          ELSE /\ procs' = Spawn(Exited(procs, "fail"), "Backup",
                                 executeCommandArgv(task.Source.BackupCmd, task.Source, task.RsyncOptions))
               /\ UNCHANGED <<pc, result>>
    /\ UNCHANGED <<task, op, tempDir, fs>>

\* the backup process exits; Backup wraps its error and returns
BackupExit ==
    /\ pc = "BackupWait"
    /\ \E outcome \in Outcomes :
          /\ procs' = Exited(procs, outcome)
          /\ BackupReturn(IF outcome = "ok" THEN NoErr
                          ELSE Wrap("backup command execution failed", ExitErr))
    /\ UNCHANGED <<task, op, tempDir, fs>>

\* Transfer up to its first blocking call
TransferNoValidate ==
    /\ pc = "Transfer"
    /\ IF IsRelayMode(task)
       THEN \E n \in 1 .. MaxRand :
               /\ MkdirTempName(n) \notin fs
               /\ fs' = fs \cup {MkdirTempName(n)}
               /\ tempDir' = MkdirTempName(n)
               /\ procs' = Spawn(procs, "Download",
                                 <<rsyncCmdPath(task)>> \o downloadArgs(task, MkdirTempName(n)))
               /\ pc' = "DownloadWait"
               /\ UNCHANGED result
       ELSE /\ procs' = Spawn(procs, "Direct", <<rsyncCmdPath(task)>> \o directArgs(task))
            /\ pc' = "DirectWait"
            /\ UNCHANGED <<tempDir, fs, result>>
    /\ UNCHANGED <<task, op>>

Transfer ==
    /\ pc = "Transfer"
    /\ IF Validate(task) # NoErr
       THEN /\ TransferReturn(Wrap("rsync task validation failed", Validate(task)))
            /\ UNCHANGED <<procs, tempDir, fs>>
       ELSE IF IsRelayMode(task)
       THEN \/ \* os.MkdirTemp fails
               /\ TransferReturn(Wrap("failed to create temporary directory for relay transfer",
                                      <<"mkdir error">>))
               /\ UNCHANGED <<procs, tempDir, fs>>
            \/ \E n \in 1 .. MaxRand :
                  /\ MkdirTempName(n) \notin fs
                  /\ fs' = fs \cup {MkdirTempName(n)}
                  /\ tempDir' = MkdirTempName(n)
                  /\ procs' = Spawn(procs, "Download",
                                    <<rsyncCmdPath(task)>> \o downloadArgs(task, MkdirTempName(n)))
                  /\ pc' = "DownloadWait"
                  /\ UNCHANGED result
       ELSE /\ procs' = Spawn(procs, "Direct", <<rsyncCmdPath(task)>> \o directArgs(task))
            /\ pc' = "DirectWait"
            /\ UNCHANGED <<tempDir, fs, result>>
    /\ UNCHANGED <<task, op>>

\* relay step 1 ends: on failure the deferred RemoveAll runs and Transfer
\* returns; on success the upload is spawned
DownloadExitLeak ==
    /\ pc = "DownloadWait"
    /\ \E outcome \in Outcomes :
          IF outcome = "fail"
          THEN /\ procs' = Exited(procs, "fail")
               /\ UNCHANGED fs
               /\ TransferReturn(Wrap("relay download failed", ExitErr))
          ELSE /\ procs' = Spawn(Exited(procs, "ok"), "Upload",
                                 <<rsyncCmdPath(task)>> \o uploadArgs(task, tempDir))
               /\ pc' = "UploadWait"
               /\ UNCHANGED <<fs, result>>
    /\ UNCHANGED <<task, op, tempDir>>

DownloadExitContinues ==
    /\ pc = "DownloadWait"
    /\ \E outcome \in Outcomes :
          /\ procs' = Spawn(Exited(procs, outcome), "Upload",
                            <<rsyncCmdPath(task)>> \o uploadArgs(task, tempDir))
          /\ pc' = "UploadWait"
          /\ UNCHANGED <<fs, result>>
    /\ UNCHANGED <<task, op, tempDir>>

DownloadExit ==
    /\ pc = "DownloadWait"
    /\ \E outcome \in Outcomes :
          IF outcome = "fail"
          THEN /\ procs' = Exited(procs, "fail")
               /\ fs' = RemoveAll(fs, tempDir)
               /\ TransferReturn(Wrap("relay download failed", ExitErr))
          ELSE /\ procs' = Spawn(Exited(procs, "ok"), "Upload",
                                 <<rsyncCmdPath(task)>> \o uploadArgs(task, tempDir))
               /\ pc' = "UploadWait"
               /\ UNCHANGED <<fs, result>>
    /\ UNCHANGED <<task, op, tempDir>>

\* relay step 2 ends: the deferred RemoveAll runs and Transfer returns
UploadExit ==
    /\ pc = "UploadWait"
    /\ \E outcome \in Outcomes :
          /\ procs' = Exited(procs, outcome)
          /\ fs' = RemoveAll(fs, tempDir)
          /\ TransferReturn(IF outcome = "ok" THEN NoErr
                            ELSE Wrap("relay upload failed", ExitErr))
    /\ UNCHANGED <<task, op, tempDir>>

\* the direct rsync ends and Transfer returns
DirectExit ==
    /\ pc = "DirectWait"
    /\ \E outcome \in Outcomes :
          /\ procs' = Exited(procs, outcome)
          /\ TransferReturn(IF outcome = "ok" THEN NoErr
                            ELSE Wrap("rsync execution failed", ExitErr))
    /\ UNCHANGED <<task, op, tempDir, fs>>

RestoreOnSource ==
    /\ pc = "Restore"
    /\ IF TrimSpace(task.Destination.RestoreCmd) = <<>>
       THEN /\ RestoreReturn(<<"restore command is not defined for destination">>)
            /\ UNCHANGED procs
       ELSE /\ procs' = Spawn(procs, "Restore",
                              executeCommandArgv(task.Destination.RestoreCmd, task.Source,
                                                 task.RsyncOptions))
            /\ pc' = "RestoreWait"
            /\ UNCHANGED result
    /\ UNCHANGED <<task, op, tempDir, fs>>

\* Restore up to the point where executeCommand has spawned the process
Restore ==
    /\ pc = "Restore"
    /\ IF TrimSpace(task.Destination.RestoreCmd) = <<>>
       THEN /\ RestoreReturn(<<"restore command is not defined for destination">>)
            /\ UNCHANGED procs
       ELSE IF executeCommandPreErr(task.Destination.RestoreCmd, task.Destination) # NoErr
       THEN /\ RestoreReturn(Wrap("restore command execution failed",
                                  executeCommandPreErr(task.Destination.RestoreCmd, task.Destination)))
            /\ UNCHANGED procs
       ELSE /\ procs' = Spawn(procs, "Restore",
                              executeCommandArgv(task.Destination.RestoreCmd, task.Destination,
                                                 task.RsyncOptions))
            /\ pc' = "RestoreWait"
            /\ UNCHANGED result
    /\ UNCHANGED <<task, op, tempDir, fs>>

RestoreExitRetry ==
    /\ pc = "RestoreWait"
    /\ \E outcome \in Outcomes :
          IF outcome = "ok"
          THEN /\ procs' = Exited(procs, "ok")
               /\ RestoreReturn(NoErr)
          ELSE /\ procs' = SubSeq(procs, 1, Len(procs) - 1)
               /\ pc' = "Restore"
               /\ UNCHANGED result
    /\ UNCHANGED <<task, op, tempDir, fs>>

\* the restore process exits; Restore wraps its error and returns
RestoreExit ==
    /\ pc = "RestoreWait"
    /\ \E outcome \in Outcomes :
          /\ procs' = Exited(procs, outcome)
          /\ RestoreReturn(IF outcome = "ok" THEN NoErr
                           ELSE Wrap("restore command execution failed", ExitErr))
    /\ UNCHANGED <<task, op, tempDir, fs>>

Next ==
    \/ MigrateData
    \/ Backup
    \/ BackupExit
    \/ Transfer
    \/ DownloadExit
    \/ UploadExit
    \/ DirectExit
    \/ Restore
    \/ RestoreExit

Spec == Init /\ [][Next]_vars

(***************************************************************************)
(* Vocabulary of the properties                                            *)
(***************************************************************************)
SyncPhases == {"Download", "Upload", "Direct"}

IsSync(p) == p.phase \in SyncPhases

SyncProcs == SelectSeq(procs, IsSync)

PhasesSpawned == {procs[i].phase : i \in 1 .. Len(procs)}

Running == {i \in 1 .. Len(procs) : procs[i].state = "running"}

\* Backup before Transfer (download before upload) before Restore
PhaseRank(phase) ==
    CASE phase = "Backup" -> 1
      [] phase = "Download" -> 2
      [] phase = "Direct" -> 2
      [] phase = "Upload" -> 3
      [] phase = "Restore" -> 4

LastTwo(argv) == SubSeq(argv, Len(argv) - 1, Len(argv))

\* the value that follows -e in an argument vector, <<>> if there is no -e
HookArg(argv) ==
    IF \E i \in 1 .. Len(argv) - 1 : argv[i] = <<"-", "e">>
    THEN argv[(CHOOSE i \in 1 .. Len(argv) - 1 : argv[i] = <<"-", "e">>) + 1]
    ELSE <<>>

\* hook h carries the option "<flag> <value>" as two whole words
HookHas(h, flag, value) ==
    Contains(<<" ">> \o h \o <<" ">>, <<" ">> \o flag \o <<" ">> \o value \o <<" ">>)

Returned == pc = "done"

\* the Transfer call of this invocation has returned
TransferReturned ==
    \/ op = "Transfer" /\ pc = "done"
    \/ op = "MigrateData" /\ pc \in {"Restore", "RestoreWait"}
    \/ op = "MigrateData" /\ pc = "done" /\ (result = NoErr \/ Head(result) # "backup operation failed")

\* C1: in a MigrateData invocation a process is spawned only after every
\* earlier one has exited (so at most one is alive), and the processes come in
\* the order backup, sync tool (download before upload), restore.
C1_StrictPhaseOrder ==
    op = "MigrateData" =>
        /\ \A i \in 1 .. Len(procs) - 1 : procs[i].state # "running"
        /\ Cardinality(Running) <= 1
        /\ \A i, j \in 1 .. Len(procs) :
              i < j => PhaseRank(procs[i].phase) < PhaseRank(procs[j].phase)

C1_Witness ==
    /\ op = "MigrateData" /\ pc = "RestoreWait"
    /\ Len(procs) = 4
    /\ <<procs[1].phase, procs[2].phase, procs[3].phase, procs[4].phase>>
         = <<"Backup", "Download", "Upload", "Restore">>
    /\ procs[4].state = "running"

\* C2: MigrateData is fail-fast: a failed process is the last one the
\* invocation spawns and makes it return an error; a task Transfer rejects
\* gets neither sync tool nor restore; an error of the backup (transfer) phase
\* leaves sync tool and restore (restore) unspawned; success is returned only
\* when every spawned process succeeded.
C2_FailFast ==
    op = "MigrateData" =>
        /\ \A i \in 1 .. Len(procs) :
              procs[i].state = "fail" => i = Len(procs) /\ Returned /\ result # NoErr
        /\ Validate(task) # NoErr =>
              /\ PhasesSpawned \subseteq {"Backup"}
              /\ Returned => result # NoErr
        /\ (Returned /\ result # NoErr /\ Head(result) = "backup operation failed") =>
              PhasesSpawned \subseteq {"Backup"}
        /\ (Returned /\ result # NoErr /\ Head(result) = "data transfer failed") =>
              "Restore" \notin PhasesSpawned
        /\ (Returned /\ result = NoErr) =>
              \A i \in 1 .. Len(procs) : procs[i].state = "ok"

C2_Witness ==
    /\ op = "MigrateData" /\ Returned
    /\ TrimSpace(task.Destination.RestoreCmd) # <<>>
    /\ Len(procs) = 2
    /\ procs[1].phase = "Backup" /\ procs[1].state = "ok"
    /\ procs[2].phase = "Direct" /\ procs[2].state = "fail"
    /\ result = <<"data transfer failed", "rsync execution failed", "exit status 1">>

\* C3: with a blank BackupCmd MigrateData spawns no backup process, reports no
\* backup error and goes on to Transfer; once Transfer has succeeded it runs
\* Restore iff RestoreCmd is not blank, and returns success without a restore
\* process when it is blank.
TransferSucceeded ==
    \E i \in 1 .. Len(procs) : procs[i].phase \in {"Direct", "Upload"} /\ procs[i].state = "ok"

C3_BlankBackupSkipped ==
    (op = "MigrateData" /\ TrimSpace(task.Source.BackupCmd) = <<>>) =>
        /\ "Backup" \notin PhasesSpawned
        /\ pc \notin {"Backup", "BackupWait"}
        /\ (Returned /\ result # NoErr) => Head(result) # "backup operation failed"
        /\ Returned => (SyncProcs # <<>> \/ (result # NoErr /\ Head(result) = "data transfer failed"))
        /\ (Returned /\ TransferSucceeded /\ TrimSpace(task.Destination.RestoreCmd) # <<>>) =>
              "Restore" \in PhasesSpawned
        /\ (TransferSucceeded /\ TrimSpace(task.Destination.RestoreCmd) = <<>>) =>
              Returned /\ result = NoErr /\ "Restore" \notin PhasesSpawned

C3_Witness ==
    /\ op = "MigrateData" /\ Returned
    /\ task.Source.BackupCmd = <<" ">>
    /\ Len(procs) = 2
    /\ procs[1].phase = "Direct" /\ procs[2].phase = "Restore"
    /\ result = NoErr

C6_DirectOnce ==
    (Validate(task) = NoErr /\ ~IsRelayMode(task)) =>
        /\ tempDir = NoDir /\ fs = {}
        /\ Len(SyncProcs) <= 1
        /\ (TransferReturned \/ pc = "DirectWait") => Len(SyncProcs) = 1
        /\ \A i \in 1 .. Len(SyncProcs) :
              /\ SyncProcs[i].phase = "Direct"
              /\ Head(SyncProcs[i].argv) = rsyncCmdPath(task)
              /\ LastTwo(SyncProcs[i].argv)
                   = <<getRsyncPath(task.Source), getRsyncPath(task.Destination)>>

C6_Witness ==
    /\ op = "Transfer" /\ Returned /\ result = NoErr
    /\ Len(procs) = 1 /\ procs[1].phase = "Direct"
    /\ LastTwo(procs[1].argv) = << <<"u", "1", "@", "h", "1", ":", "/", "s">>, <<"/", "d">> >>

GoverningEndpoint == IF isRemote(task.Source) THEN task.Source ELSE task.Destination

C8_PortAndPolicyReachHook ==
    (Validate(task) = NoErr /\ (isRemote(task.Source) \/ isRemote(task.Destination))) =>
        \A i \in 1 .. Len(SyncProcs) :
           LET h == HookArg(SyncProcs[i].argv) IN
              /\ GoverningEndpoint.SSHPort # 0 =>
                    HookHas(h, <<"-", "p">>, Itoa(GoverningEndpoint.SSHPort))
              /\ task.RsyncOptions.InsecureSkipHostKeyVerification =>
                    /\ HookHas(h, <<"-", "o">>, S_StrictHostKeyChecking)
                    /\ HookHas(h, <<"-", "o">>, S_UserKnownHostsFile)

\* C9: a MigrateData invocation on a task that Validate rejects spawns no
\* process at all and returns an error, whatever the source's BackupCmd.
C9_InvalidTaskSpawnsNothing ==
    (op = "MigrateData" /\ Validate(task) # NoErr) =>
        /\ procs = <<>>
        /\ Returned => result # NoErr

\* C10: on a task that Validate rejects, Transfer spawns no sync-tool process,
\* creates no staging directory and returns the validation error wrapped in
\* "rsync task validation failed".
C10_TransferFailsClosed ==
    Validate(task) # NoErr =>
        /\ SyncProcs = <<>>
        /\ tempDir = NoDir /\ fs = {}
        /\ pc \notin {"DownloadWait", "UploadWait", "DirectWait"}
        /\ (op = "Transfer" /\ Returned) =>
              result = Wrap("rsync task validation failed", Validate(task))
        /\ (op = "MigrateData" /\ TransferReturned) =>
              /\ Returned
              /\ result = Wrap("data transfer failed",
                               Wrap("rsync task validation failed", Validate(task)))

C10_Witness ==
    /\ op = "Transfer" /\ Returned
    /\ task.Source.SSHPort = 70000 /\ isRemote(task.Source)
    /\ result = <<"rsync task validation failed", "source SSH port is out of valid range (1-65535)">>
    /\ procs = <<>>

(***************************************************************************)
(* executeCommand called on its own                                        *)
(*                                                                         *)
(* The call is executeCommand(task.Source.BackupCmd, task.Source,          *)
(* task.RsyncOptions), the call Backup makes, entered without Backup's     *)
(* guard so that blank commands reach it.                                  *)
(***************************************************************************)
ExecEndpoints ==
    [Username : {<<>>, <<" ">>, <<"u", "1">>},
     HostIP : {<<>>, <<" ">>, <<"h", "1">>},
     SSHPort : {0, 22, 2222},
     DataPath : {<<"/", "s">>},
     SSHPrivateKeyPath : {<<>>, <<" ">>, <<"k", "1">>},
     BackupCmd : {<<>>, <<" ">>, <<" ", "\t">>, <<"b", "k">>,
                  <<"s", "u", "d", "o", " ", "b", "k">>, <<"v", "i", "s", "u", "d", "o">>},
     RestoreCmd : {<<>>}]

ExecTasks ==
    [Source : ExecEndpoints,
     Destination : {[ZeroEndpoint EXCEPT !.DataPath = <<"/", "d">>]},
     RsyncOptions : Options]

InitExec ==
    /\ task \in ExecTasks
    /\ op = "executeCommand"
    /\ pc = "executeCommand"
    /\ procs = <<>>
    /\ tempDir = NoDir
    /\ fs = {}
    /\ result = NoErr

\* executeCommand up to the point where it has spawned the process
ExecuteCommand ==
    /\ pc = "executeCommand"
    /\ IF executeCommandPreErr(task.Source.BackupCmd, task.Source) # NoErr
       THEN /\ result' = executeCommandPreErr(task.Source.BackupCmd, task.Source)
            /\ pc' = "done"
            /\ UNCHANGED procs
       ELSE /\ procs' = Spawn(procs, "Exec",
                              executeCommandArgv(task.Source.BackupCmd, task.Source, task.RsyncOptions))
            /\ pc' = "ExecWait"
            /\ UNCHANGED result
    /\ UNCHANGED <<task, op, tempDir, fs>>

\* the process exits and CombinedOutput returns its error
ExecuteCommandExit ==
    /\ pc = "ExecWait"
    /\ \E outcome \in Outcomes :
          /\ procs' = Exited(procs, outcome)
          /\ result' = (IF outcome = "ok" THEN NoErr ELSE ExitErr)
    /\ pc' = "done"
    /\ UNCHANGED <<task, op, tempDir, fs>>

NextExec ==
    \/ ExecuteCommand
    \/ ExecuteCommandExit

SpecExec == InitExec /\ [][NextExec]_vars

\* a string with no character other than white space
IsBlank(s) == \A i \in 1 .. Len(s) : s[i] \in WhiteSpace

\* C11: executeCommand called with a blank command (empty or white space
\* only) spawns no process and returns "command to execute cannot be empty",
\* for every endpoint, local or remote, and every option value.
C11_BlankCommandRejected ==
    (op = "executeCommand" /\ IsBlank(task.Source.BackupCmd)) =>
        /\ procs = <<>>
        /\ pc # "ExecWait"
        /\ Returned => result = <<"command to execute cannot be empty">>

C11_Witness ==
    /\ op = "executeCommand" /\ Returned
    /\ task.Source.BackupCmd = <<" ", "\t">>
    /\ task.Source.HostIP = <<"h", "1">>
    /\ result = <<"command to execute cannot be empty">>
    /\ procs = <<>>

\* the command of a phase called on its own
StandaloneCmd ==
    IF op = "Backup" THEN task.Source.BackupCmd ELSE task.Destination.RestoreCmd

\* C12 as claimed: Backup(task) and Restore(task), called on their own with a
\* blank command, spawn no process and return success.
C12_StandaloneBlankIsSuccess ==
    (op \in {"Backup", "Restore"} /\ IsBlank(StandaloneCmd)) =>
        /\ procs = <<>>
        /\ Returned => result = NoErr

\* C12 as amended: Backup(task) and Restore(task), called on their own with a
\* blank command, spawn no process and return the error "backup command is not
\* defined for source" / "restore command is not defined for destination".
C12_StandaloneBlankIsError ==
    (op \in {"Backup", "Restore"} /\ IsBlank(StandaloneCmd)) =>
        /\ procs = <<>>
        /\ pc \in {op, "done"}
        /\ Returned =>
              result = (IF op = "Backup"
                        THEN <<"backup command is not defined for source">>
                        ELSE <<"restore command is not defined for destination">>)

C12_Witness ==
    /\ op = "Backup" /\ Returned
    /\ task.Source.BackupCmd = <<" ">>
    /\ procs = <<>>
    /\ result = <<"backup command is not defined for source">>

\* the program a process runs and the last argument it is given
Program(p) == Head(p.argv)

LastArg(p) == p.argv[Len(p.argv)]

ShellPrograms == {<<"s", "h">>, <<"s", "s", "h">>}

\* C13: a phase called on its own runs only itself: Backup spawns at most one
\* process, the source's backup command through sh or ssh; Transfer spawns
\* only sync-tool processes; Restore spawns at most one process, the
\* destination's restore command through sh or ssh.
C13_OnePhaseOnly ==
    /\ op = "Backup" =>
          /\ Len(procs) <= 1
          /\ pc \in {"Backup", "BackupWait", "done"}
          /\ \A i \in 1 .. Len(procs) :
                /\ procs[i].phase = "Backup"
                /\ Program(procs[i]) \in ShellPrograms
                /\ Program(procs[i]) # rsyncCmdPath(task)
                /\ LastArg(procs[i]) = task.Source.BackupCmd
    /\ op = "Transfer" =>
          /\ pc \in {"Transfer", "DownloadWait", "UploadWait", "DirectWait", "done"}
          /\ \A i \in 1 .. Len(procs) :
                /\ procs[i].phase \in SyncPhases
                /\ Program(procs[i]) = rsyncCmdPath(task)
    /\ op = "Restore" =>
          /\ Len(procs) <= 1
          /\ pc \in {"Restore", "RestoreWait", "done"}
          /\ \A i \in 1 .. Len(procs) :
                /\ procs[i].phase = "Restore"
                /\ Program(procs[i]) \in ShellPrograms
                /\ Program(procs[i]) # rsyncCmdPath(task)
                /\ LastArg(procs[i]) = task.Destination.RestoreCmd

C13_Witness ==
    /\ op = "Backup" /\ Returned /\ result = NoErr
    /\ TrimSpace(task.Destination.RestoreCmd) # <<>>
    /\ Validate(task) = NoErr
    /\ Len(procs) = 1 /\ procs[1].state = "ok"
    /\ LastArg(procs[1]) = <<"b", "k">>

\* C14: a MigrateData invocation never retries and never compensates: at
\* most one backup process, at most one restore process, at most one sync-tool
\* process in direct mode and two in relay mode; each call of executeCommand
\* that is waiting has spawned exactly one process; a failed process is the
\* last process of the invocation.
CountPhase(phases) == Cardinality({i \in 1 .. Len(procs) : procs[i].phase \in phases})

C14_NoRetryNoRollback ==
    op = "MigrateData" =>
        /\ CountPhase({"Backup"}) <= 1
        /\ CountPhase({"Restore"}) <= 1
        /\ CountPhase(SyncPhases) <= (IF IsRelayMode(task) THEN 2 ELSE 1)
        /\ Len(procs) <= 4
        /\ pc = "BackupWait" => CountPhase({"Backup"}) = 1 /\ Len(procs) = 1
        /\ pc = "RestoreWait" => CountPhase({"Restore"}) = 1
        /\ \A i \in 1 .. Len(procs) : procs[i].state = "fail" => i = Len(procs) /\ Returned

C14_Witness ==
    /\ op = "MigrateData" /\ Returned
    /\ TrimSpace(task.Destination.RestoreCmd) # <<>>
    /\ Len(procs) = 3
    /\ procs[1].phase = "Backup" /\ procs[1].state = "ok"
    /\ procs[2].phase = "Download" /\ procs[2].state = "ok"
    /\ procs[3].phase = "Upload" /\ procs[3].state = "fail"
    /\ Head(result) = "data transfer failed"

(***************************************************************************)
(* Validate called on its own                                              *)
(***************************************************************************)
ValidateEndpoints ==
    [Username : {<<>>, <<"u">>},
     HostIP : {<<>>, <<" ">>, <<"h">>},
     SSHPort : {0 - 1, 0, 1, 22, 65535, 65536, 70000},
     DataPath : {<<>>, <<" ">>, <<"/", "p">>},
     SSHPrivateKeyPath : {<<>>},
     BackupCmd : {<<>>},
     RestoreCmd : {<<>>}]

ValidateTasks ==
    [Source : ValidateEndpoints,
     Destination : ValidateEndpoints,
     RsyncOptions : {o \in Options : ~o.InsecureSkipHostKeyVerification}]

InitValidate ==
    /\ task \in ValidateTasks
    /\ op = "Validate"
    /\ pc = "Validate"
    /\ procs = <<>>
    /\ tempDir = NoDir
    /\ fs = {}
    /\ result = NoErr

ValidateCall ==
    /\ pc = "Validate"
    /\ result' = Validate(task)
    /\ pc' = "done"
    /\ UNCHANGED <<task, op, procs, tempDir, fs>>

NextValidate == ValidateCall

SpecValidate == InitValidate /\ [][NextValidate]_vars

MissingPathErrors ==
    { <<"source path must be provided for rsync task">>,
      <<"destination path must be provided for rsync task">> }

InvalidPortErrors ==
    { <<"source SSH port is out of valid range (1-65535)">>,
      <<"destination SSH port is out of valid range (1-65535)">> }

\* has a character that is not white space
HasText(s) == \E i \in 1 .. Len(s) : s[i] \notin WhiteSpace

\* C15: Validate returns a missing-path error for every task in which the
\* DataPath of either endpoint is empty or white space, whether the endpoint
\* is local or remote; a blank destination DataPath is rejected with a
\* missing-path error whatever the source is.
C15_MissingPathRejected ==
    (op = "Validate" /\ Returned) =>
        /\ (~HasText(task.Source.DataPath) \/ ~HasText(task.Destination.DataPath)) =>
              result \in MissingPathErrors
        /\ ~HasText(task.Source.DataPath) =>
              result = <<"source path must be provided for rsync task">>
        /\ (HasText(task.Source.DataPath) /\ ~HasText(task.Destination.DataPath)) =>
              result = <<"destination path must be provided for rsync task">>

C15_Witness ==
    /\ op = "Validate" /\ Returned
    /\ task.Source.HostIP = <<"h">> /\ task.Source.SSHPort = 70000
    /\ task.Source.DataPath = <<"/", "p">>
    /\ task.Destination.HostIP = <<"h">> /\ task.Destination.DataPath = <<" ">>
    /\ result = <<"destination path must be provided for rsync task">>

\* C16: for a task whose two DataPaths are present, Validate returns an
\* invalid-port error exactly when some remote endpoint has an SSHPort that is
\* neither 0 nor in 1..65535, and returns nil otherwise.
BadPort(e) == HasText(e.HostIP) /\ e.SSHPort # 0 /\ e.SSHPort \notin 1 .. 65535

C16_InvalidPortRejected ==
    (op = "Validate" /\ Returned
        /\ HasText(task.Source.DataPath) /\ HasText(task.Destination.DataPath)) =>
        /\ (BadPort(task.Source) \/ BadPort(task.Destination)) <=> result \in InvalidPortErrors
        /\ ~(BadPort(task.Source) \/ BadPort(task.Destination)) <=> result = NoErr
        /\ BadPort(task.Source) => result = <<"source SSH port is out of valid range (1-65535)">>

C16_Witness ==
    /\ op = "Validate" /\ Returned
    /\ task.Source.HostIP = <<"h">> /\ task.Source.SSHPort = 65535
    /\ task.Destination.HostIP = <<"h">> /\ task.Destination.SSHPort = 65536
    /\ result = <<"destination SSH port is out of valid range (1-65535)">>

(***************************************************************************)
(* The EndpointDetails methods called on their own, on task.Source         *)
(***************************************************************************)
MethodEndpoints ==
    [Username : {<<>>, <<" ">>, <<"u">>},
     HostIP : {<<>>, <<" ">>, <<" ", "\t">>, <<"h">>, <<" ", "h">>},
     SSHPort : {0, 22},
     DataPath : {<<>>, <<"/", "a", "/", "b">>},
     SSHPrivateKeyPath : {<<>>, <<"k">>},
     BackupCmd : {<<>>, <<"b", "k">>},
     RestoreCmd : {<<>>, <<"r", "s">>}]

MethodTasks ==
    [Source : MethodEndpoints,
     Destination : {ZeroEndpoint},
     RsyncOptions : {o \in Options : ~o.InsecureSkipHostKeyVerification}]

InitMethods ==
    /\ task \in MethodTasks
    /\ op \in {"isRemote", "getRsyncPath"}
    /\ pc = op
    /\ procs = <<>>
    /\ tempDir = NoDir
    /\ fs = {}
    /\ result = NoErr

IsRemoteCall ==
    /\ pc = "isRemote"
    /\ result' = isRemote(task.Source)
    /\ pc' = "done"
    /\ UNCHANGED <<task, op, procs, tempDir, fs>>

GetRsyncPathCall ==
    /\ pc = "getRsyncPath"
    /\ result' = getRsyncPath(task.Source)
    /\ pc' = "done"
    /\ UNCHANGED <<task, op, procs, tempDir, fs>>

NextMethods ==
    \/ IsRemoteCall
    \/ GetRsyncPathCall

SpecMethods == InitMethods /\ [][NextMethods]_vars

\* C17: isRemote() returns true exactly when HostIP has a character that is
\* not white space, whatever the other fields hold; a HostIP of white space
\* only is local.
C17_RemoteIffHost ==
    (op = "isRemote" /\ Returned) => (result = HasText(task.Source.HostIP))

C17_Witness ==
    /\ op = "isRemote" /\ Returned
    /\ task.Source.HostIP = <<" ", "\t">>
    /\ task.Source.Username = <<"u">> /\ task.Source.SSHPort = 22
    /\ task.Source.SSHPrivateKeyPath = <<"k">>
    /\ result = FALSE

\* C19: getRsyncPath() returns DataPath for a local endpoint, Username "@"
\* HostIP ":" DataPath for a remote endpoint whose Username is not blank, and
\* HostIP ":" DataPath for a remote endpoint whose Username is blank; the
\* result depends on no other field.
C19_RsyncPathForm ==
    (op = "getRsyncPath" /\ Returned) =>
        LET e == task.Source IN
          /\ ~HasText(e.HostIP) => result = e.DataPath
          /\ (HasText(e.HostIP) /\ HasText(e.Username)) =>
                result = e.Username \o <<"@">> \o e.HostIP \o <<":">> \o e.DataPath
          /\ (HasText(e.HostIP) /\ ~HasText(e.Username)) =>
                result = e.HostIP \o <<":">> \o e.DataPath

C19_Witness ==
    /\ op = "getRsyncPath" /\ Returned
    /\ task.Source.Username = <<" ">>
    /\ task.Source.SSHPrivateKeyPath = <<"k">>
    /\ result = <<"h", ":", "/", "a", "/", "b">>

(***************************************************************************)
(* A caller that asks IsRelayMode, changes a HostIP of its task and asks   *)
(* again, or hands the task to Transfer                                    *)
(***************************************************************************)
RelayHosts == {<<>>, <<" ">>, <<"h", "1">>, <<"h", "2">>}

RelayTasks ==
    [Source : [Username : {<<"u", "1">>}, HostIP : RelayHosts, SSHPort : {0}, DataPath : {<<"/", "s">>},
               SSHPrivateKeyPath : {<<>>, <<"k", "1">>}, BackupCmd : {<<>>}, RestoreCmd : {<<>>}],
     Destination : [Username : {<<"u", "2">>}, HostIP : RelayHosts, SSHPort : {0}, DataPath : {<<"/", "d">>},
                    SSHPrivateKeyPath : {<<>>}, BackupCmd : {<<>>}, RestoreCmd : {<<>>}],
     RsyncOptions : {o \in Options : ~o.InsecureSkipHostKeyVerification}]

InitRelayMode ==
    /\ task \in RelayTasks
    /\ op = "IsRelayMode"
    /\ pc = "IsRelayMode"
    /\ procs = <<>>
    /\ tempDir = NoDir
    /\ fs = {}
    /\ result = NoErr

IsRelayModeCall ==
    /\ pc = "IsRelayMode"
    /\ result' = IsRelayMode(task)
    /\ pc' = "caller"
    /\ UNCHANGED <<task, op, procs, tempDir, fs>>

\* the caller assigns another HostIP to one endpoint and calls IsRelayMode again
SetHostIP ==
    /\ pc = "caller"
    /\ \E h \in RelayHosts :
          \/ h # task.Source.HostIP /\ task' = [task EXCEPT !.Source.HostIP = h]
          \/ h # task.Destination.HostIP /\ task' = [task EXCEPT !.Destination.HostIP = h]
    /\ pc' = "IsRelayMode"
    /\ UNCHANGED <<op, procs, tempDir, fs, result>>

\* the caller passes its task to Transfer
CallTransfer ==
    /\ pc = "caller"
    /\ op' = "Transfer"
    /\ pc' = "Transfer"
    /\ result' = NoErr
    /\ UNCHANGED <<task, procs, tempDir, fs>>

NextRelayMode ==
    \/ IsRelayModeCall
    \/ SetHostIP
    \/ CallTransfer
    \/ Transfer
    \/ DownloadExit
    \/ UploadExit
    \/ DirectExit

SpecRelayMode == InitRelayMode /\ [][NextRelayMode]_vars

BothHaveHost == HasText(task.Source.HostIP) /\ HasText(task.Destination.HostIP)

\* C18: IsRelayMode() returns true exactly when both endpoints have a HostIP
\* that is not blank, also after the caller has changed a HostIP since the
\* previous call; and Transfer goes through a staging directory with a
\* download and an upload exactly when that holds of the task it is given,
\* and runs one direct rsync otherwise.
C18_RelayIffBothRemote ==
    /\ (op = "IsRelayMode" /\ pc = "caller") => (result = BothHaveHost)
    /\ op = "Transfer" =>
          /\ pc \in {"DownloadWait", "UploadWait"} => BothHaveHost
          /\ pc = "DirectWait" => ~BothHaveHost
          /\ PhasesSpawned \subseteq (IF BothHaveHost THEN {"Download", "Upload"} ELSE {"Direct"})
          /\ tempDir # NoDir => BothHaveHost
          /\ (Returned /\ result = NoErr) =>
                Len(procs) = (IF BothHaveHost THEN 2 ELSE 1)

C18_Witness ==
    /\ op = "Transfer" /\ pc = "UploadWait"
    /\ task.Source.HostIP = <<"h", "2">>
    /\ task.Destination.HostIP = <<"h", "1">>
    /\ Len(procs) = 2

\* C20: for a command that is not blank the process executeCommand spawns has
\* exactly these arguments in this order.  Remote endpoint: ssh; -i and the key
\* path iff the key path is not blank; -p and the port iff SSHPort is not 0;
\* the two host-key options iff InsecureSkipHostKeyVerification;
\* -o ConnectTimeout=30; -t iff the command contains "sudo"; Username@HostIP,
\* or HostIP when Username is blank; the command itself, as one argument.
\* Local endpoint: sh, -c, the command.
HasSudo(cmd) ==
    \E i \in 1 .. Len(cmd) - 3 : <<cmd[i], cmd[i + 1], cmd[i + 2], cmd[i + 3]>> = <<"s", "u", "d", "o">>

C20_ExpectedArgv ==
    LET e == task.Source
        cmd == task.Source.BackupCmd
    IN  IF HasText(e.HostIP)
        THEN << <<"s", "s", "h">> >>
             \o (IF HasText(e.SSHPrivateKeyPath) THEN << <<"-", "i">>, e.SSHPrivateKeyPath >> ELSE <<>>)
             \o (IF e.SSHPort # 0 THEN << <<"-", "p">>, Itoa(e.SSHPort) >> ELSE <<>>)
             \o (IF task.RsyncOptions.InsecureSkipHostKeyVerification
                 THEN << <<"-", "o">>,
                         <<"S", "t", "r", "i", "c", "t", "H", "o", "s", "t", "K", "e", "y", "C", "h", "e", "c",
                           "k", "i", "n", "g", "=", "a", "c", "c", "e", "p", "t", "-", "n", "e", "w">>,
                         <<"-", "o">>,
                         <<"U", "s", "e", "r", "K", "n", "o", "w", "n", "H", "o", "s", "t", "s", "F", "i", "l",
                           "e", "=", "/", "d", "e", "v", "/", "n", "u", "l", "l">> >>
                 ELSE <<>>)
             \o << <<"-", "o">>,
                   <<"C", "o", "n", "n", "e", "c", "t", "T", "i", "m", "e", "o", "u", "t", "=", "3", "0">> >>
             \o (IF HasSudo(cmd) THEN << <<"-", "t">> >> ELSE <<>>)
             \o << (IF HasText(e.Username) THEN e.Username \o <<"@">> \o e.HostIP ELSE e.HostIP), cmd >>
        ELSE << <<"s", "h">>, <<"-", "c">>, cmd >>

MaxCallers == 2

Callers == 1 .. MaxCallers

ConcurrentTasks ==
    [Source : [Username : {<<"u", "1">>}, HostIP : {<<"h", "1">>}, SSHPort : {0}, DataPath : {<<"/", "s">>},
               SSHPrivateKeyPath : {<<>>}, BackupCmd : {<<>>}, RestoreCmd : {<<>>}],
     Destination : [Username : {<<"u", "2">>}, HostIP : {<<>>, <<"h", "2">>}, SSHPort : {0},
                    DataPath : {<<>>, <<"/", "d">>},
                    SSHPrivateKeyPath : {<<>>}, BackupCmd : {<<>>}, RestoreCmd : {<<>>}],
     RsyncOptions : {o \in Options : ~o.InsecureSkipHostKeyVerification}]

MkdirTempAnyName(dirs) == {MkdirTempName(1)}

\* the names os.MkdirTemp("", "transx-relay-*") can return when dirs exist: it
\* creates the directory exclusively and draws another suffix if the name is taken
MkdirTemp(dirs) == {MkdirTempName(n) : n \in 1 .. MaxRand} \ dirs

InitConcurrent ==
    /\ task \in [Callers -> ConcurrentTasks]
    /\ op = "Transfer"
    /\ pc = [c \in Callers |-> "Transfer"]
    /\ procs = [c \in Callers |-> <<>>]
    /\ tempDir = [c \in Callers |-> NoDir]
    /\ fs = {}
    /\ result = [c \in Callers |-> NoErr]

\* one caller's Transfer up to its first blocking call
ConcurrentTransfer ==
    \E c \in Callers :
       /\ pc[c] = "Transfer"
       /\ IF Validate(task[c]) # NoErr
          THEN /\ pc' = [pc EXCEPT ![c] = "done"]
               /\ result' = [result EXCEPT ![c] = Wrap("rsync task validation failed", Validate(task[c]))]
               /\ UNCHANGED <<procs, tempDir, fs>>
          ELSE IF IsRelayMode(task[c])
          THEN \/ \* os.MkdirTemp fails
                  /\ pc' = [pc EXCEPT ![c] = "done"]
                  /\ result' = [result EXCEPT ![c] =
                                   Wrap("failed to create temporary directory for relay transfer",
                                        <<"mkdir error">>)]
                  /\ UNCHANGED <<procs, tempDir, fs>>
               \/ \E dir \in MkdirTemp(fs) :
                     /\ fs' = fs \cup {dir}
                     /\ tempDir' = [tempDir EXCEPT ![c] = dir]
                     /\ procs' = [procs EXCEPT ![c] =
                                     Spawn(procs[c], "Download",
                                           <<rsyncCmdPath(task[c])>> \o downloadArgs(task[c], dir))]
                     /\ pc' = [pc EXCEPT ![c] = "DownloadWait"]
                     /\ UNCHANGED result
          ELSE /\ procs' = [procs EXCEPT ![c] =
                               Spawn(procs[c], "Direct", <<rsyncCmdPath(task[c])>> \o directArgs(task[c]))]
               /\ pc' = [pc EXCEPT ![c] = "DirectWait"]
               /\ UNCHANGED <<tempDir, fs, result>>
       /\ UNCHANGED <<task, op>>

\* one caller's download ends
ConcurrentDownloadExit ==
    \E c \in Callers :
       /\ pc[c] = "DownloadWait"
       /\ \E outcome \in Outcomes :
             IF outcome = "fail"
             THEN /\ procs' = [procs EXCEPT ![c] = Exited(procs[c], "fail")]
                  /\ fs' = RemoveAll(fs, tempDir[c])
                  /\ pc' = [pc EXCEPT ![c] = "done"]
                  /\ result' = [result EXCEPT ![c] = Wrap("relay download failed", ExitErr)]
             ELSE /\ procs' = [procs EXCEPT ![c] =
                                  Spawn(Exited(procs[c], "ok"), "Upload",
                                        <<rsyncCmdPath(task[c])>> \o uploadArgs(task[c], tempDir[c]))]
                  /\ pc' = [pc EXCEPT ![c] = "UploadWait"]
                  /\ UNCHANGED <<fs, result>>
       /\ UNCHANGED <<task, op, tempDir>>

\* one caller's upload ends
ConcurrentUploadExit ==
    \E c \in Callers :
       /\ pc[c] = "UploadWait"
       /\ \E outcome \in Outcomes :
             /\ procs' = [procs EXCEPT ![c] = Exited(procs[c], outcome)]
             /\ fs' = RemoveAll(fs, tempDir[c])
             /\ pc' = [pc EXCEPT ![c] = "done"]
             /\ result' = [result EXCEPT ![c] =
                              IF outcome = "ok" THEN NoErr ELSE Wrap("relay upload failed", ExitErr)]
       /\ UNCHANGED <<task, op, tempDir>>

\* one caller's direct rsync ends
ConcurrentDirectExit ==
    \E c \in Callers :
       /\ pc[c] = "DirectWait"
       /\ \E outcome \in Outcomes :
             /\ procs' = [procs EXCEPT ![c] = Exited(procs[c], outcome)]
             /\ pc' = [pc EXCEPT ![c] = "done"]
             /\ result' = [result EXCEPT ![c] =
                              IF outcome = "ok" THEN NoErr ELSE Wrap("rsync execution failed", ExitErr)]
       /\ UNCHANGED <<task, op, tempDir, fs>>

NextConcurrent ==
    \/ ConcurrentTransfer
    \/ ConcurrentDownloadExit
    \/ ConcurrentUploadExit
    \/ ConcurrentDirectExit

SpecConcurrent == InitConcurrent /\ [][NextConcurrent]_vars

\* caller c is between the creation and the removal of its staging directory
Staging(c) == pc[c] \in {"DownloadWait", "UploadWait"}

\* the directories the running processes of caller c read or write
Touched(c) ==
    UNION {{procs[c][i].argv[j] : j \in {Len(procs[c][i].argv) - 1, Len(procs[c][i].argv)}} :
             i \in {k \in 1 .. Len(procs[c]) : procs[c][k].state = "running"}}

\* C21: of the callers that run a relay Transfer at the same time, each has a
\* staging directory of its own that exists until that caller removes it, and
\* the running rsync of a caller names its own staging directory and the
\* staging directory of no other caller.
C21_OwnStagingDirectory ==
    \A c \in Callers :
       Staging(c) =>
          /\ tempDir[c] \in fs
          /\ tempDir[c] \o <<"/">> \in Touched(c)
          /\ \A d \in Callers \ {c} :
                Staging(d) =>
                   /\ tempDir[d] # tempDir[c]
                   /\ tempDir[d] \o <<"/">> \notin Touched(c)

C21_Witness ==
    /\ pc[1] = "UploadWait" /\ pc[2] = "DownloadWait"
    /\ tempDir[1] = MkdirTempName(2) /\ tempDir[2] = MkdirTempName(1)
    /\ fs = {MkdirTempName(1), MkdirTempName(2)}

MaxPatterns == 2

ExcludePatterns == {<<" ">>, <<"x">>, <<"y">>}

IncludePatterns == {<<>>, <<"i">>}

PatternLists(patterns) == UNION {[1 .. n -> patterns] : n \in 0 .. MaxPatterns}

FlagOptions ==
    [Compress : BOOLEAN, Archive : BOOLEAN, Verbose : BOOLEAN, Delete : BOOLEAN,
     Progress : BOOLEAN, DryRun : BOOLEAN, RsyncPath : {<<>>},
     Exclude : PatternLists(ExcludePatterns), Include : PatternLists(IncludePatterns),
     InsecureSkipHostKeyVerification : {FALSE}]

FlagTasks ==
    [Source : [Username : {<<>>}, HostIP : {<<>>, <<"h", "1">>}, SSHPort : {0}, DataPath : {<<"/", "s">>},
               SSHPrivateKeyPath : {<<"k", "1">>}, BackupCmd : {<<>>}, RestoreCmd : {<<>>}],
     Destination : [Username : {<<>>}, HostIP : {<<"h", "2">>}, SSHPort : {0}, DataPath : {<<"/", "d">>},
                    SSHPrivateKeyPath : {<<>>}, BackupCmd : {<<>>}, RestoreCmd : {<<>>}],
     RsyncOptions : FlagOptions]

InitFlags ==
    /\ task \in FlagTasks
    /\ op = "Transfer"
    /\ pc = "Transfer"
    /\ procs = <<>>
    /\ tempDir = NoDir
    /\ fs = {}
    /\ result = NoErr

NextFlags ==
    \/ Transfer
    \/ DownloadExit
    \/ UploadExit
    \/ DirectExit

SpecFlags == InitFlags /\ [][NextFlags]_vars

\* the boolean flags in the order of the claim, each with its option
FlagOrder ==
    << [flag |-> <<"-", "a">>, set |-> task.RsyncOptions.Archive],
       [flag |-> <<"-", "z">>, set |-> task.RsyncOptions.Compress],
       [flag |-> <<"-", "v">>, set |-> task.RsyncOptions.Verbose],
       [flag |-> <<"-", "-", "d", "e", "l", "e", "t", "e">>, set |-> task.RsyncOptions.Delete],
       [flag |-> <<"-", "-", "p", "r", "o", "g", "r", "e", "s", "s">>, set |-> task.RsyncOptions.Progress],
       [flag |-> <<"-", "n">>, set |-> task.RsyncOptions.DryRun] >>

IsSet(f) == f.set

BooleanFlags == [i \in 1 .. Len(SelectSeq(FlagOrder, IsSet)) |-> SelectSeq(FlagOrder, IsSet)[i].flag]

OnePer(prefix, patterns) == [i \in 1 .. Len(patterns) |-> prefix \o patterns[i]]

HookFlags == IF sshOptString(task) # <<>> THEN << <<"-", "e">>, sshOptString(task) >> ELSE <<>>

Occurrences(argv, a) == Cardinality({i \in 1 .. Len(argv) : argv[i] = a})

\* C23 as stated: every rsync invocation is the program, the boolean flags
\* that are set in the fixed order, one --exclude=<p> for every entry of
\* Exclude, one --include=<p> for every entry of Include, the -e hook if any,
\* and two positional addresses.
C23_OnePerPattern ==
    \A i \in 1 .. Len(procs) :
       procs[i].argv
         = <<rsyncCmdPath(task)>> \o BooleanFlags
           \o OnePer(<<"-", "-", "e", "x", "c", "l", "u", "d", "e", "=">>, task.RsyncOptions.Exclude)
           \o OnePer(<<"-", "-", "i", "n", "c", "l", "u", "d", "e", "=">>, task.RsyncOptions.Include)
           \o HookFlags \o LastTwo(procs[i].argv)

\* C23: every rsync invocation is the program, the boolean flags that are set
\* in the order -a -z -v --delete --progress -n (each at most once), one
\* --exclude=<p> for every entry of Exclude that is not blank, in list order,
\* one --include=<p> for every entry of Include that is not blank, in list
\* order, the -e hook if any, and two positional addresses; the two hops of a
\* relay differ only in the positional addresses.
C23_FlagListOrder ==
    /\ \A i \in 1 .. Len(procs) :
          /\ procs[i].argv
               = <<rsyncCmdPath(task)>> \o BooleanFlags
                 \o OnePer(<<"-", "-", "e", "x", "c", "l", "u", "d", "e", "=">>,
                           SelectSeq(task.RsyncOptions.Exclude, HasText))
                 \o OnePer(<<"-", "-", "i", "n", "c", "l", "u", "d", "e", "=">>,
                           SelectSeq(task.RsyncOptions.Include, HasText))
                 \o HookFlags \o LastTwo(procs[i].argv)
          /\ \A k \in 1 .. Len(FlagOrder) :
                Occurrences(procs[i].argv, FlagOrder[k].flag) = (IF FlagOrder[k].set THEN 1 ELSE 0)
    /\ \A i, j \in 1 .. Len(procs) :
          SubSeq(procs[i].argv, 1, Len(procs[i].argv) - 2) = SubSeq(procs[j].argv, 1, Len(procs[j].argv) - 2)

C23_Witness ==
    /\ Returned /\ result = NoErr
    /\ task.RsyncOptions.Exclude = << <<"y">>, <<" ">> >>
    /\ task.RsyncOptions.Include = << <<>>, <<"i">> >>
    /\ Len(procs) = 2
    /\ SubSeq(procs[2].argv, 1, Len(procs[2].argv) - 2)
         = << <<"r", "s", "y", "n", "c">>, <<"-", "z">>, <<"-", "-", "d", "e", "l", "e", "t", "e">>, <<"-", "n">>,
              <<"-", "-", "e", "x", "c", "l", "u", "d", "e", "=", "y">>,
              <<"-", "-", "i", "n", "c", "l", "u", "d", "e", "=", "i">>,
              <<"-", "e">>, <<"s", "s", "h", " ", "-", "i", " ", "k", "1">> >>

(***************************************************************************)
(* The example command-line program with step flags (its main): op is the  *)
(* parsed command line, task the migrationTask read from the configuration *)
(* file, procs the calls of the library's phases it has made               *)
(***************************************************************************)
CommandLines == [backupOnly : BOOLEAN, transferOnly : BOOLEAN, restoreOnly : BOOLEAN, verbose : BOOLEAN]

MainTasks ==
    [Source : [Username : {<<"u", "1">>}, HostIP : {<<>>, <<"h", "1">>}, SSHPort : {0},
               DataPath : {<<>>, <<"/", "s">>}, SSHPrivateKeyPath : {<<>>, <<"~", "/", "k">>},
               BackupCmd : {<<"b", "k">>}, RestoreCmd : {<<>>}],
     Destination : [Username : {<<"u", "2">>}, HostIP : {<<>>}, SSHPort : {0}, DataPath : {<<"/", "d">>},
                    SSHPrivateKeyPath : {<<>>}, BackupCmd : {<<>>}, RestoreCmd : {<<"r", "s">>}],
     RsyncOptions : {o \in Options : ~o.InsecureSkipHostKeyVerification}]

\* what os.UserHomeDir() may return; its error is discarded
HomeDirs == {<<>>, <<"/", "h">>}

\* the key path after "expand tilde": filepath.Join(homeDir, key[2:]) for a key that starts with ~/
ExpandTilde(key, homeDir) ==
    IF Len(key) >= 2 /\ SubSeq(key, 1, 2) = <<"~", "/">>
    THEN IF homeDir = <<>> THEN SubSeq(key, 3, Len(key))
         ELSE homeDir \o <<"/">> \o SubSeq(key, 3, Len(key))
    ELSE key

InitMain ==
    /\ task \in MainTasks
    /\ op \in CommandLines
    /\ pc = "main"
    /\ procs = <<>>
    /\ tempDir = NoDir
    /\ fs = {}
    /\ result = NoErr

\* main up to the migration steps: the configuration is read, parsed and
\* validated (log.Fatalf ends the program), then the key paths are expanded
MainLoadConfig ==
    /\ pc = "main"
    /\ \/ /\ \E msg \in {"Failed to read config file", "Failed to parse config JSON"} :
               result' = <<msg>>
          /\ pc' = "done"
          /\ UNCHANGED task
       \/ /\ Validate(task) # NoErr
          /\ result' = Wrap("Invalid migration configuration", Validate(task))
          /\ pc' = "done"
          /\ UNCHANGED task
       \/ /\ Validate(task) = NoErr
          /\ \E homeDir \in HomeDirs :
                task' = [task EXCEPT
                           !.Source.SSHPrivateKeyPath = ExpandTilde(@, homeDir),
                           !.Destination.SSHPrivateKeyPath = ExpandTilde(@, homeDir)]
          /\ pc' = "Step1"
          /\ UNCHANGED result
    /\ UNCHANGED <<op, procs, tempDir, fs>>

MainStep1IgnoresTransferOnly ==
    /\ pc = "Step1"
    /\ IF ~op.restoreOnly
       THEN /\ procs' = Spawn(procs, "Backup", <<>>)
            /\ pc' = "Step1Wait"
       ELSE /\ pc' = "Step2"
            /\ UNCHANGED procs
    /\ UNCHANGED <<task, op, tempDir, fs, result>>

\* step 1 up to the call of the library's Backup
MainStep1 ==
    /\ pc = "Step1"
    /\ IF ~op.transferOnly /\ ~op.restoreOnly
       THEN /\ procs' = Spawn(procs, "Backup", <<>>)
            /\ pc' = "Step1Wait"
       ELSE /\ pc' = "Step2"
            /\ UNCHANGED procs
    /\ UNCHANGED <<task, op, tempDir, fs, result>>

\* Backup returns: log.Fatalf on an error, return if --backup, else step 2
MainStep1Return ==
    /\ pc = "Step1Wait"
    /\ \E outcome \in Outcomes :
          /\ procs' = Exited(procs, outcome)
          /\ IF outcome = "fail"
             THEN pc' = "done" /\ result' = Wrap("Database backup failed", <<"error">>)
             ELSE pc' = (IF op.backupOnly THEN "done" ELSE "Step2") /\ UNCHANGED result
    /\ UNCHANGED <<task, op, tempDir, fs>>

\* step 2 up to the call of the library's transfer
MainStep2 ==
    /\ pc = "Step2"
    /\ IF ~op.backupOnly /\ ~op.restoreOnly
       THEN /\ procs' = Spawn(procs, "Transfer", <<>>)
            /\ pc' = "Step2Wait"
       ELSE /\ pc' = "Step3"
            /\ UNCHANGED procs
    /\ UNCHANGED <<task, op, tempDir, fs, result>>

\* the transfer returns: log.Fatalf on an error, return if --transfer, else step 3
MainStep2Return ==
    /\ pc = "Step2Wait"
    /\ \E outcome \in Outcomes :
          /\ procs' = Exited(procs, outcome)
          /\ IF outcome = "fail"
             THEN pc' = "done" /\ result' = Wrap("Data transfer failed", <<"error">>)
             ELSE pc' = (IF op.transferOnly THEN "done" ELSE "Step3") /\ UNCHANGED result
    /\ UNCHANGED <<task, op, tempDir, fs>>

\* step 3 up to the call of the library's Restore; main ends if the step is not selected
MainStep3 ==
    /\ pc = "Step3"
    /\ IF ~op.backupOnly /\ ~op.transferOnly
       THEN /\ procs' = Spawn(procs, "Restore", <<>>)
            /\ pc' = "Step3Wait"
       ELSE /\ pc' = "done"
            /\ UNCHANGED procs
    /\ UNCHANGED <<task, op, tempDir, fs, result>>

\* Restore returns: log.Fatalf on an error, else main ends
MainStep3Return ==
    /\ pc = "Step3Wait"
    /\ \E outcome \in Outcomes :
          /\ procs' = Exited(procs, outcome)
          /\ pc' = "done"
          /\ IF outcome = "fail"
             THEN result' = Wrap("Database restore failed", <<"error">>)
             ELSE UNCHANGED result
    /\ UNCHANGED <<task, op, tempDir, fs>>

NextMain ==
    \/ MainLoadConfig
    \/ MainStep1
    \/ MainStep1Return
    \/ MainStep2
    \/ MainStep2Return
    \/ MainStep3
    \/ MainStep3Return

SpecMain == InitMain /\ [][NextMain]_vars

\* the phases main has called so far, in call order
PhasesCalled == [i \in 1 .. Len(procs) |-> procs[i].phase]

\* the phases the step flags select, for the command lines the claim speaks of
Selected ==
    CASE op.backupOnly /\ ~op.transferOnly /\ ~op.restoreOnly -> <<"Backup">>
      [] ~op.backupOnly /\ op.transferOnly /\ ~op.restoreOnly -> <<"Transfer">>
      [] ~op.backupOnly /\ ~op.transferOnly /\ op.restoreOnly -> <<"Restore">>
      [] ~op.backupOnly /\ ~op.transferOnly /\ ~op.restoreOnly -> <<"Backup", "Transfer", "Restore">>
      [] OTHER -> <<>>

AtMostOneFlag ==
    Cardinality({f \in {"backupOnly", "transferOnly", "restoreOnly"} : op[f]}) <= 1

TransferErr ==
    IF op = "MigrateData" /\ result # NoErr /\ Head(result) = "data transfer failed"
    THEN Tail(result)
    ELSE result

\* C25: in a relay Transfer the upload is spawned only after the download has
\* exited successfully; a failed download is the last process of the transfer
\* and makes Transfer return the "relay download failed" error; a failed
\* upload makes Transfer return the "relay upload failed" error.
C25_RelayHopErrors ==
    op \in {"Transfer", "MigrateData"} =>
       \A i \in 1 .. Len(procs) :
          /\ procs[i].phase = "Upload" =>
                i > 1 /\ procs[i - 1].phase = "Download" /\ procs[i - 1].state = "ok"
          /\ (procs[i].phase = "Download" /\ procs[i].state = "fail") =>
                /\ "Upload" \notin PhasesSpawned
                /\ i = Len(procs)
                /\ Returned
                /\ TransferErr = <<"relay download failed", "exit status 1">>
          /\ (procs[i].phase = "Upload" /\ procs[i].state = "fail") =>
                /\ i = Len(procs)
                /\ Returned
                /\ TransferErr = <<"relay upload failed", "exit status 1">>

C25_Witness ==
    /\ op = "MigrateData" /\ Returned
    /\ Len(procs) = 3
    /\ procs[2].phase = "Download" /\ procs[2].state = "ok"
    /\ procs[3].phase = "Upload" /\ procs[3].state = "fail"
    /\ result = <<"data transfer failed", "relay upload failed", "exit status 1">>

\* argv runs cmd against endpoint e: over ssh to e's host with e's key and
\* port when e has a host, by sh -c otherwise
RunsAgainst(argv, e, cmd) ==
    /\ argv[Len(argv)] = cmd
    /\ IF HasText(e.HostIP)
       THEN /\ Head(argv) = <<"s", "s", "h">>
            /\ argv[Len(argv) - 1] \in {e.HostIP, e.Username \o <<"@">> \o e.HostIP}
            /\ HasText(e.SSHPrivateKeyPath) =>
                  \E j \in 1 .. Len(argv) - 1 : argv[j] = <<"-", "i">> /\ argv[j + 1] = e.SSHPrivateKeyPath
            /\ e.SSHPort # 0 =>
                  \E j \in 1 .. Len(argv) - 1 : argv[j] = <<"-", "p">> /\ argv[j + 1] = Itoa(e.SSHPort)
       ELSE argv = << <<"s", "h">>, <<"-", "c">>, cmd >>

\* no argument of argv carries the host, the key path or the port of endpoint e
Avoids(argv, e) ==
    \A j \in 1 .. Len(argv) :
       /\ HasText(e.HostIP) => ~Contains(argv[j], e.HostIP)
       /\ HasText(e.SSHPrivateKeyPath) => argv[j] # e.SSHPrivateKeyPath
       /\ e.SSHPort # 0 => argv[j] # Itoa(e.SSHPort)

FlagsOf(argv) == SubSeq(argv, 1, Len(argv) - 2)

\* C27: when the source has a host, the -e hook of every rsync invocation (if
\* there is one) carries the source's key path and port and nothing of the
\* destination's key path or port, and the download and the upload of a relay
\* have the same arguments before the addresses; when neither endpoint has a
\* host, no rsync invocation has an -e argument, whatever key paths and ports
\* the endpoints carry.
C27_SourceWinsHook ==
    \A i \in 1 .. Len(SyncProcs) :
       LET argv == SyncProcs[i].argv
           h == HookArg(argv)
           src == task.Source
           dst == task.Destination
       IN  /\ HasText(src.HostIP) =>
                 /\ h # <<>> =>
                       /\ HookHas(h, <<"-", "i">>, src.SSHPrivateKeyPath)
                       /\ src.SSHPort # 0 => HookHas(h, <<"-", "p">>, Itoa(src.SSHPort))
                       /\ src.SSHPort = 0 => ~Contains(h, <<"-", "p">>)
                 /\ HasText(dst.SSHPrivateKeyPath) => ~Contains(h, dst.SSHPrivateKeyPath)
                 /\ dst.SSHPort # 0 => ~Contains(h, Itoa(dst.SSHPort))
                 /\ \A j \in 1 .. Len(SyncProcs) : FlagsOf(SyncProcs[j].argv) = FlagsOf(argv)
           /\ (~HasText(src.HostIP) /\ ~HasText(dst.HostIP)) =>
                 \A k \in 1 .. Len(argv) : argv[k] # <<"-", "e">>

C27_Witness ==
    /\ pc = "UploadWait"
    /\ task.Destination.SSHPrivateKeyPath = <<"k", "2">> /\ task.Destination.SSHPort = 2222
    /\ Len(SyncProcs) = 2
    /\ HookArg(SyncProcs[2].argv)
         = <<"s", "s", "h", " ", "-", "i", " ", "k", "1", " ", "-", "p", " ", "2", "2">>
    /\ HookArg(SyncProcs[1].argv) = HookArg(SyncProcs[2].argv)

(***************************************************************************)
(* Progress: the operation's own steps are taken as long as one is         *)
(* possible, and every child process in CombinedOutput() exits              *)
(***************************************************************************)
SpecFair == Init /\ [][Next]_vars /\ WF_vars(Next)

\* C28: when every child process exits and os.MkdirTemp and os.RemoveAll
\* return, every invocation of MigrateData, Backup, Transfer and Restore
\* returns, and an invocation never has more than four processes in all.
C28_Terminates == <>Returned /\ [](Len(procs) <= 4)

C28_Witness ==
    /\ op = "MigrateData" /\ Returned
    /\ Len(procs) = 4
    /\ procs[4].phase = "Restore" /\ procs[4].state = "fail"
    /\ result = <<"restore operation failed", "restore command execution failed", "exit status 1">>

(***************************************************************************)
(* The two functions that re-check the host of a remote endpoint, each     *)
(* called on its own: Validate on a task, executeCommand on task.Source    *)
(***************************************************************************)
InitHostChecks == InitValidate \/ InitExec

NextHostChecks ==
    \/ ValidateCall
    \/ ExecuteCommand
    \/ ExecuteCommandExit

SpecHostChecks == InitHostChecks /\ [][NextHostChecks]_vars

MissingHostErrors ==
    { <<"source HostIP must be provided for remote rsync task">>,
      <<"destination HostIP must be provided for remote rsync task">>,
      <<"HostIP must be provided for remote command execution on endpoint">> }

\* C29: Validate returns nil, a missing-path error or an invalid-port error
\* and nothing else, and executeCommand returns nil, the empty-command error
\* or the error of the process it ran; neither ever returns a "HostIP must be
\* provided" error, whatever the endpoints and the command are.
C29_MissingHostUnreachable ==
    /\ (op = "Validate" /\ Returned) =>
          result \in {NoErr} \cup MissingPathErrors \cup InvalidPortErrors
    /\ (op = "executeCommand" /\ Returned) =>
          result \in {NoErr, ExitErr, <<"command to execute cannot be empty">>}
    /\ Returned => result \notin MissingHostErrors

C29_Witness ==
    /\ op = "Validate" /\ Returned /\ result = NoErr
    /\ task.Source.Username = <<"u">> /\ task.Source.HostIP = <<" ">>
    /\ task.Source.SSHPort = 70000
    /\ task.Destination.Username = <<"u">> /\ task.Destination.HostIP = <<>>

\* endpoint e has a port that is set and outside 1..65535
PortSetOutOfRange(e) == e.SSHPort # 0 /\ (e.SSHPort < 1 \/ e.SSHPort > 65535)

\* C30 as stated: Validate rejects every task with an endpoint, local or
\* remote, whose SSHPort is set and outside 1..65535.
C30_AnyEndpointPortRejected ==
    (op = "Validate" /\ Returned
        /\ (PortSetOutOfRange(task.Source) \/ PortSetOutOfRange(task.Destination))) =>
        result # NoErr

\* C30: Validate rejects every task with a remote endpoint whose SSHPort is set
\* and outside 1..65535; the SSHPort of an endpoint without a host is not
\* looked at, so a task whose only out-of-range ports are on local endpoints
\* and whose paths are present is accepted.
C30_RemoteEndpointPortRejected ==
    (op = "Validate" /\ Returned) =>
        /\ ((HasText(task.Source.HostIP) /\ PortSetOutOfRange(task.Source))
            \/ (HasText(task.Destination.HostIP) /\ PortSetOutOfRange(task.Destination))) =>
              result # NoErr
        /\ (/\ HasText(task.Source.DataPath) /\ HasText(task.Destination.DataPath)
            /\ HasText(task.Source.HostIP) => ~PortSetOutOfRange(task.Source)
            /\ HasText(task.Destination.HostIP) => ~PortSetOutOfRange(task.Destination)) =>
              result = NoErr

C30_Witness ==
    /\ op = "Validate" /\ Returned /\ result = NoErr
    /\ task.Source.HostIP = <<>> /\ task.Source.SSHPort = 65536
    /\ task.Destination.HostIP = <<"h">> /\ task.Destination.SSHPort = 1
    /\ task.Source.Username = <<>> /\ task.Destination.Username = <<>>

====
